---- MODULE Spec2Model ----
(***************************************************************************)
(* Model of the vector index engine of mnemo-search:                       *)
(*   core/embedding_and_save.py  (index_files and its helpers)             *)
(*   core/search_files.py        (search_by_embedding)                     *)
(*   scripts/app_funcs.py        (search_files)                            *)
(*   core/extract_and_summarize.py (summarize_file_by_llm)                 *)
(*   app.py                      (the batch loop of the organize page)     *)
(*   core/extract_file_text/parse_doc_utils.py, parse_ppt.py, parse_pdf.py *)
(*                               (the line classifier and the extractors)  *)
(* State: the three persisted artifacts of one index, the active embedding *)
(* model, the outcome of the last call, history variables, the call of     *)
(* summarize_file_by_llm in progress (sum), the organize run (run) and the *)
(* extraction call being answered (ext).                                   *)
(* Python list positions are 0-based; positions here are 1-based.          *)
(***************************************************************************)
EXTENDS Integers, Sequences, FiniteSets, TLC

VARIABLES disk, active, last, hist, sum, run, ext

vars == <<disk, active, last, hist, sum, run, ext>>

\* ---------------------------------------------------------------- bounds
MaxBatch == 2
MaxK == 2

\* ------------------------------------------------------- input universe
\* A file name is the sequence of its dot-separated segments.
Doc(name, path, kws, summary) ==
    [file_name |-> name, file_path |-> path, keywords |-> kws, summary |-> summary]

Docs ==
    { Doc(<<"a", "pdf">>,  "/x/a.pdf",  <<"k1">>, "s1"),
      Doc(<<"b", "pdf">>,  "/x/b.pdf",  <<"k2">>, "s2"),
      Doc(<<"d", "pdf">>,  "/x/d.pdf",  <<"k3">>, "s3"),
      Doc(<<"g", "v2", "pdf">>, "/x/g.v2.pdf", <<"k6", "", "k7">>, "s4"),
      Doc(<<"c", "pptx">>, "/x/c.pptx", <<"k4">>, "zero"),
      Doc(<<"a", "pdf">>,  "/y/a.pdf",  <<"k5">>, "nan") }

\* index_files is called with a non-empty list (app.py:233, assertion of
\* embedding_and_save.py:190)
Batches == UNION { [1..n -> Docs] : n \in 1..MaxBatch }

Models ==
    { [name |-> "e5-small", dim |-> 2],
      [name |-> "e5-base",  dim |-> 2],
      [name |-> "e5-large", dim |-> 3] }

Queries == {"q1"}

\* ------------------------------------------------------ pure functions
\* md5 of the core info; the core info is the model name, the embedding
\* dimension and the fixed normalisation flag.
get_model_fingerprint(embedding_model_name, embedding_model) ==
    <<embedding_model_name, embedding_model.dim, "normalize_True">>

\* The first 32 bits of the md5 of the path: a fixed function of the path
\* that is not injective ("/x/a.pdf" and "/x/d.pdf" stand for two paths
\* whose digests share their first 8 hex digits).
compute_document_id(file_path) ==
    CASE file_path = "/x/a.pdf"  -> 11
      [] file_path = "/x/b.pdf"  -> 22
      [] file_path = "/x/d.pdf"  -> 11
      [] file_path = "/x/g.v2.pdf" -> 55
      [] file_path = "/x/c.pptx" -> 44
      [] file_path = "/y/a.pdf"  -> 33
      [] file_path = "/r/f1.pdf" -> 61
      [] file_path = "/r/f2.pdf" -> 62
      [] file_path = "/r/f3.pdf" -> 63
      [] file_path = "/r/f4.pdf" -> 64
      [] file_path = "/r/f5.pdf" -> 65
      [] file_path = "/r/f6.pdf" -> 66

DocIds == { compute_document_id(d.file_path) : d \in Docs } \cup (61..66)

\* str(doc_id) and int(key): the decimal string of an id and its parse.
StrKey(doc_id) == ToString(doc_id)
IntKey(key) == CHOOSE i \in DocIds : ToString(i) = key

\* [kw.strip() for kw in keywords if kw.strip()]: keywords are given
\* trimmed here, "" is one that is blank after trimming.
RECURSIVE CleanKeywords(_)
CleanKeywords(kws) ==
    IF kws = <<>> THEN <<>>
    ELSE IF Head(kws) = "" THEN CleanKeywords(Tail(kws))
         ELSE <<Head(kws)>> \o CleanKeywords(Tail(kws))

FirstFive(kws) == SubSeq(kws, 1, IF Len(kws) < 5 THEN Len(kws) ELSE 5)

RECURSIVE JoinComma(_)
JoinComma(kws) ==
    IF kws = <<>> THEN <<>>
    ELSE IF Len(kws) = 1 THEN kws
         ELSE <<Head(kws), ", ">> \o JoinComma(Tail(kws))

\* A text is the sequence of the pieces it is concatenated from.
build_text_for_embedding(metadata_dict) ==
    LET keywords == FirstFive(CleanKeywords(metadata_dict.keywords))
        file_name_str == metadata_dict.file_name[1]
    IN <<"passage: ", file_name_str, " - ">> \o JoinComma(keywords)
           \o <<" - ", metadata_dict.summary>>

\* ------------------------------------------------ embedding collaborator
\* encode() is deterministic: the vector is a function of the model and of
\* the text.  A vector is its dimension, its numeric kind (regular, all
\* zero, holding a NaN, or holding an infinity and no NaN), the model and
\* text it encodes, and a direction code from which inner products are
\* computed.
TextCode(t) ==
    CASE t = "s1" -> 1 [] t = "s2" -> 2 [] t = "s3" -> 3 [] t = "s4" -> 4
      [] t = "q1" -> 2 [] OTHER -> 0

VectorKind(t) ==
    CASE t = "zero" -> "zero" [] t = "nan" -> "nan" [] t = "inf" -> "inf"
      [] OTHER -> "regular"

ModelCode(m) ==
    CASE m.name = "e5-small" -> 1 [] m.name = "e5-base" -> 2 [] OTHER -> 3

Encode(m, text) ==
    [dim   |-> m.dim,
     model |-> m.name,
     text  |-> text,
     kind  |-> VectorKind(text[Len(text)]),
     code  |-> (TextCode(text[Len(text)]) + ModelCode(m)) % 5]

\* inner product of two vectors of the same dimension
InnerProduct(u, v) == (u.code * v.code) % 5

\* np.any(np.isnan(v)) or np.allclose(v, 0)
IsDegenerate(v) == v.kind = "nan" \/ v.kind = "zero"

\* ------------------------------------------------------------ the disk
\* index: the FAISS file, an IndexIDMap2 over IndexFlatIP: its dimension d
\* and its (id, vector) pairs in insertion order.  metadata: the JSON
\* object keyed by the decimal string of the id.  fingerprint: the value
\* of the "fingerprint" field and whether the JSON value is an object with
\* that field.  A file that does not exist has the content of NoDisk.
NoDisk ==
    [index_exists |-> FALSE, index |-> [d |-> 0, entries |-> <<>>],
     metadata_with_id_exists |-> FALSE, metadata |-> <<>>,
     model_fingerprint_exists |-> FALSE,
     model_fingerprint |-> [has_fingerprint |-> FALSE, fingerprint |-> <<>>]]

ntotal(index) == Len(index.entries)

IndexIds(index) == { index.entries[i].id : i \in 1..Len(index.entries) }

\* ------------------------------------------------------- encode_texts_lst
RECURSIVE FilterValid(_, _)
FilterValid(vectors, i) ==
    IF i > Len(vectors) THEN <<>>
    ELSE IF IsDegenerate(vectors[i]) THEN FilterValid(vectors, i + 1)
         ELSE <<i>> \o FilterValid(vectors, i + 1)

\* the positions of the vectors that are kept; <<>> stands for (None, None)
encode_texts_lst(texts_lst, embedding_model) ==
    LET vectors == [i \in 1..Len(texts_lst) |-> Encode(embedding_model, texts_lst[i])]
    IN [vectors |-> vectors, valid_indices |-> FilterValid(vectors, 1)]

\* variants: the comparison is inverted; every stored fingerprint counts
\* as changed
FingerprintDiffers_inverted(stored_fingerprint, current_fingerprint) ==
    stored_fingerprint = current_fingerprint

FingerprintDiffers_always(stored_fingerprint, current_fingerprint) == TRUE

\* ------------------------------------------------------------ load_index
FingerprintDiffers(stored_fingerprint, current_fingerprint) ==
    stored_fingerprint # current_fingerprint

load_index(d, embedding_model_name, embedding_model) ==
    IF /\ d.model_fingerprint.has_fingerprint
       /\ FingerprintDiffers(d.model_fingerprint.fingerprint,
                             get_model_fingerprint(embedding_model_name, embedding_model))
    THEN "changed" ELSE "consistent"

\* variant: the test on the fingerprint file is inverted
AllArtifactsExist_inverted(d) ==
    d.index_exists /\ d.metadata_with_id_exists /\ ~d.model_fingerprint_exists

\* ----------------------------------------------------------- index_files
AllArtifactsExist(d) ==
    d.index_exists /\ d.metadata_with_id_exists /\ d.model_fingerprint_exists

AllFileNames(doc_metadata_list) ==
    [i \in 1..Len(doc_metadata_list) |-> doc_metadata_list[i].file_name]

\* variant: the existing id set is left empty
ExistingDocIds_empty(existing_metadata_dict) == {}

ExistingDocIds(existing_metadata_dict) ==
    { IntKey(k) : k \in DOMAIN existing_metadata_dict }

RECURSIVE SelectNotIn(_, _, _)
SelectNotIn(doc_metadata_list, valid_indices, i) ==
    IF i > Len(doc_metadata_list) THEN <<>>
    ELSE IF \E j \in 1..Len(valid_indices) : valid_indices[j] = i
         THEN SelectNotIn(doc_metadata_list, valid_indices, i + 1)
         ELSE <<doc_metadata_list[i].file_name>>
                  \o SelectNotIn(doc_metadata_list, valid_indices, i + 1)

\* variant: the whole batch is reported when some vector was discarded
InvalidFiles_whole(doc_metadata_list, valid_indices) ==
    IF Len(doc_metadata_list) > Len(valid_indices)
    THEN [i \in 1..Len(doc_metadata_list) |-> doc_metadata_list[i].file_name]
    ELSE <<>>

InvalidFiles(doc_metadata_list, valid_indices) ==
    IF Len(doc_metadata_list) > Len(valid_indices)
    THEN SelectNotIn(doc_metadata_list, valid_indices, 1)
    ELSE <<>>

\* variant: the empty result of the filter is not recognised
NoValidVectors_never(valid_indices) == FALSE

\* if valid_vectors is None
NoValidVectors(valid_indices) == valid_indices = <<>>

\* new_metadata_dict[doc_id] = doc_meta in list order: the last document
\* that derives an id is the one kept under it.
NewMetadataDict(doc_metadata_list, new_doc_ids) ==
    [id \in { new_doc_ids[i] : i \in 1..Len(new_doc_ids) } |->
        LET i == CHOOSE i \in 1..Len(new_doc_ids) :
                    /\ new_doc_ids[i] = id
                    /\ \A j \in 1..Len(new_doc_ids) : new_doc_ids[j] = id => j <= i
        IN doc_metadata_list[i]]

\* existing_metadata_dict_str_keys | valid_metadata_dict
MergeMetadata(existing, valid) ==
    [k \in (DOMAIN existing) \cup (DOMAIN valid) |->
        IF k \in DOMAIN valid THEN valid[k] ELSE existing[k]]

\* add_with_ids appends every pair; an IndexIDMap2 does not look for an id
\* it already holds.
add_with_ids(index, vectors, ids) ==
    [d |-> index.d,
     entries |-> index.entries \o [i \in 1..Len(ids) |-> [id |-> ids[i], vec |-> vectors[i]]]]

\* variant: the consistency assertion is not executed
CountsAgree_off(faiss_index, combined_metadata_dict) == TRUE

CountsAgree(faiss_index, combined_metadata_dict) ==
    ntotal(faiss_index) = Cardinality(DOMAIN combined_metadata_dict)

save_index_and_metadata(index, metadata_with_id, embedding_model_name, embedding_model) ==
    [index_exists |-> TRUE, index |-> index,
     metadata_with_id_exists |-> TRUE, metadata |-> metadata_with_id,
     model_fingerprint_exists |-> TRUE,
     model_fingerprint |->
         [has_fingerprint |-> TRUE,
          fingerprint |-> get_model_fingerprint(embedding_model_name, embedding_model)]]

Outcome(status, invalid, d, encoded, added) ==
    [status |-> status, invalid_files |-> invalid, disk |-> d,
     encoded |-> encoded, added |-> added]

\* The whole of index_files on the disk d: the status returned (or
\* "AssertionError" when an assert stops the call), the invalid list, the
\* disk after the call, whether encode() was called, and the ids added.
index_files(d, doc_metadata_list, embedding_model_name, embedding_model) ==
    LET loaded == AllArtifactsExist(d)
        model_consistency ==
            IF loaded THEN load_index(d, embedding_model_name, embedding_model)
            ELSE "consistent"
        faiss_index ==
            IF loaded THEN d.index ELSE [d |-> embedding_model.dim, entries |-> <<>>]
        existing_metadata_dict == IF loaded THEN d.metadata ELSE <<>>
        existing_doc_ids == ExistingDocIds(existing_metadata_dict)
        new_doc_ids ==
            [i \in 1..Len(doc_metadata_list) |->
                compute_document_id(doc_metadata_list[i].file_path)]
        new_ebd_texts_lst ==
            [i \in 1..Len(doc_metadata_list) |->
                build_text_for_embedding(doc_metadata_list[i])]
        new_metadata_dict == NewMetadataDict(doc_metadata_list, new_doc_ids)
        enc == encode_texts_lst(new_ebd_texts_lst, embedding_model)
        valid_indices == enc.valid_indices
        valid_vectors == [j \in 1..Len(valid_indices) |-> enc.vectors[valid_indices[j]]]
        valid_doc_ids == [j \in 1..Len(valid_indices) |-> new_doc_ids[valid_indices[j]]]
        valid_metadata_dict ==
            [k \in { StrKey(valid_doc_ids[j]) : j \in 1..Len(valid_doc_ids) } |->
                new_metadata_dict[IntKey(k)]]
        new_index == add_with_ids(faiss_index, valid_vectors, valid_doc_ids)
        combined_metadata_dict == MergeMetadata(existing_metadata_dict, valid_metadata_dict)
    IN IF loaded /\ model_consistency = "changed"
       THEN Outcome("model_changed_error", AllFileNames(doc_metadata_list), d, FALSE, <<>>)
       ELSE IF \E i \in 1..Len(new_doc_ids) : new_doc_ids[i] \in existing_doc_ids
       THEN Outcome("AssertionError", <<>>, d, FALSE, <<>>)
       ELSE IF NoValidVectors(valid_indices)
       THEN Outcome("no_valid_vectors_error", AllFileNames(doc_metadata_list), d, TRUE, <<>>)
       ELSE IF faiss_index.d # embedding_model.dim
       THEN Outcome("AssertionError", <<>>, d, TRUE, <<>>)
       ELSE IF ~CountsAgree(new_index, combined_metadata_dict)
       THEN Outcome("AssertionError", <<>>, d, TRUE, <<>>)
       ELSE Outcome("valid_output", InvalidFiles(doc_metadata_list, valid_indices),
                    save_index_and_metadata(new_index, combined_metadata_dict,
                                            embedding_model_name, embedding_model),
                    TRUE, valid_doc_ids)

\* ---------------------------------------------------------------- search
NoMatch == -1

\* IndexFlatIP.search: the k stored vectors of largest inner product with
\* the query, best first (of equal scores the one inserted first), padded
\* with the id -1 when the index holds fewer than k vectors.
RECURSIVE TopK(_, _, _, _)
TopK(entries, query_vec, k, taken) ==
    IF k = 0 THEN <<>>
    ELSE LET free == (1..Len(entries)) \ taken
         IN IF free = {}
            THEN <<[id |-> NoMatch, score |-> -1]>> \o TopK(entries, query_vec, k - 1, taken)
            ELSE LET best == CHOOSE i \in free : \A j \in free :
                                 \/ InnerProduct(query_vec, entries[i].vec)
                                        > InnerProduct(query_vec, entries[j].vec)
                                 \/ /\ InnerProduct(query_vec, entries[i].vec)
                                        = InnerProduct(query_vec, entries[j].vec)
                                    /\ i <= j
                 IN <<[id |-> entries[best].id,
                       score |-> InnerProduct(query_vec, entries[best].vec)]>>
                        \o TopK(entries, query_vec, k - 1, taken \cup {best})

\* variant: the no-match id is not skipped
DropNoMatch_keep(raw) == raw

\* for doc_id, score in zip(doc_ids[0], scores[0]): skip -1
DropNoMatch(raw) == SelectSeq(raw, LAMBDA r : r.id # NoMatch)

WithScore(meta, score) ==
    [file_name |-> meta.file_name, file_path |-> meta.file_path,
     keywords |-> meta.keywords, summary |-> meta.summary, search_score |-> score]

NotBuilt(d) == ~d.index_exists \/ ~d.metadata_with_id_exists

SearchOutcome(outcome, raw, results) ==
    [outcome |-> outcome, raw |-> raw, results |-> results]

search_by_embedding(d, query, embedding_model, top_k) ==
    LET query_vec == Encode(embedding_model, query)
        raw == TopK(d.index.entries, query_vec, top_k, {})
        kept == DropNoMatch(raw)
    IN IF NotBuilt(d)
       THEN SearchOutcome("FileNotFoundError", <<>>, <<>>)
       ELSE IF query_vec.dim # d.index.d
       THEN SearchOutcome("AssertionError", <<>>, <<>>)
       ELSE IF \E i \in 1..Len(kept) : StrKey(kept[i].id) \notin DOMAIN d.metadata
       THEN SearchOutcome("KeyError", raw, <<>>)
       ELSE SearchOutcome("results", raw,
                [i \in 1..Len(kept) |->
                    WithScore(d.metadata[StrKey(kept[i].id)], kept[i].score)])

NotInitialized(d) == ~d.metadata_with_id_exists \/ ~d.index_exists

search_files(d, query, top_k, embedding_model) ==
    IF NotInitialized(d)
    THEN SearchOutcome("not_initialized", <<>>, <<>>)
    ELSE search_by_embedding(d, <<"query: ", query>>, embedding_model, top_k)

\* -------------------------------------------------------- summarization
\* core/extract_and_summarize.py.  A string whose characters matter (a
\* summary, a file name) is the sequence of its characters; the output of
\* the text-generation service is the sequence of the pieces it is made
\* of: braces, brace-free prose, and members of a JSON object.
max_retries == 3

\* len(llm_output) >= 100
MinOutputLen == 100

\* len(summary) < 50
MinSummaryLen == 50

\* the most pieces a generated summary is concatenated from
MaxPieces == 3

FileNameChars == <<"a", ".", "p", "d", "f">>

FileNames == { FileNameChars }

\* the whitespace characters that occur in the texts
Whitespace == {" ", "\t"}

RECURSIVE LStrip(_)
LStrip(s) ==
    IF s # <<>> /\ Head(s) \in Whitespace THEN LStrip(Tail(s)) ELSE s

RECURSIVE RStrip(_)
RStrip(s) ==
    IF s # <<>> /\ s[Len(s)] \in Whitespace
    THEN RStrip(SubSeq(s, 1, Len(s) - 1))
    ELSE s

\* str.strip()
Strip(s) == RStrip(LStrip(s))

\* the positions of s at which old occurs
Occurrences(s, old) ==
    { i \in 1..(Len(s) - Len(old) + 1) : SubSeq(s, i, i + Len(old) - 1) = old }

\* str.replace(old, ""): one pass from the left; the leftmost occurrence
\* is cut out and the pass goes on after it
RECURSIVE Remove(_, _)
Remove(s, old) ==
    IF old = <<>> \/ Occurrences(s, old) = {} THEN s
    ELSE LET at == CHOOSE i \in Occurrences(s, old) :
                       \A j \in Occurrences(s, old) : i <= j
         IN SubSeq(s, 1, at - 1)
                \o Remove(SubSeq(s, at + Len(old), Len(s)), old)

RECURSIVE Flatten(_)
Flatten(pieces) ==
    IF pieces = <<>> THEN <<>> ELSE Head(pieces) \o Flatten(Tail(pieces))

\* one piece of an output: t is "{", "}", "prose", "member", or one of the
\* two error strings; n is the number of its characters
Piece(t, n) ==
    [t |-> t, n |-> n, key |-> "", kind |-> "", chars |-> <<>>, list |-> <<>>]

Open == Piece("{", 1)

Close == Piece("}", 1)

Prose(n) == Piece("prose", n)

\* "key": "chars"
StringMember(key, chars) ==
    [t |-> "member", n |-> Len(chars) + 14, key |-> key, kind |-> "string",
     chars |-> chars, list |-> <<>>]

\* "key": ["k1", "k2"]
ListMember(key, list) ==
    [t |-> "member", n |-> 6 * Len(list) + 14, key |-> key, kind |-> "list",
     chars |-> <<>>, list |-> list]

\* "key": 7
NumberMember(key) ==
    [t |-> "member", n |-> 13, key |-> key, kind |-> "number",
     chars |-> <<>>, list |-> <<>>]

http_request_error == <<Piece("http_request_error", 18)>>

unknown_ollama_error == <<Piece("unknown_ollama_error", 20)>>

RECURSIVE TextLen(_)
TextLen(text) == IF text = <<>> THEN 0 ELSE Head(text).n + TextLen(Tail(text))

\* ----- what the service can answer
Padding == [i \in 1..(MinSummaryLen - 2) |-> "x"]

SummaryPieces == { FileNameChars, <<"a", ".">>, <<"p", "d", "f">>, <<" ">> }

Summaries ==
    { Flatten(ps) \o pad :
        ps \in UNION { [1..n -> SummaryPieces] : n \in 0..MaxPieces },
        pad \in { <<>>, Padding } }

KeywordLists == { <<>>, <<"k1">>, <<"k1", "k2", "k3", "k4", "k5", "k6">> }

\* a JSON object with a summary and a list of keywords
WellFormed ==
    { <<Open, StringMember("summary", s), ListMember("keywords", <<"k1">>), Close>> :
        s \in Summaries }
    \cup { <<Open, StringMember("summary", Padding \o Padding),
             ListMember("keywords", k), Close>> : k \in KeywordLists }

Malformed ==
    { <<>>,
      <<Prose(20)>>,
      <<Prose(120)>>,
      <<Close, Prose(120), Open>>,
      <<Open, Prose(120), Close>>,
      <<Open, StringMember("summary", Padding \o Padding),
        ListMember("keywords", <<"k1">>), Close, Prose(20), Close>>,
      <<Prose(100), Open, Close>>,
      <<Prose(100), Open, ListMember("keywords", <<"k1">>), Close>>,
      <<Prose(100), Open, StringMember("summary", Padding \o Padding), Close>>,
      <<Prose(100), Open, NumberMember("summary"),
        ListMember("keywords", <<"k1">>), Close>>,
      <<Open, StringMember("summary", Padding \o Padding),
        NumberMember("keywords"), Close>>,
      <<Open, StringMember("summary", Padding), NumberMember("keywords"), Close>> }

\* a JSON object with text around it: prose on both sides, and a second
\* JSON object after it
Surrounded ==
    LET object == <<Open, StringMember("summary", Padding \o Padding),
                    ListMember("keywords", <<"k1">>), Close>>
    IN { <<Prose(20)>> \o object \o <<Prose(20)>>,
         object \o <<Prose(20), Open,
                     StringMember("summary", Padding \o Padding \o Padding),
                     ListMember("keywords", <<"k1", "k2">>), Close>> }

\* the values call_ollama_for_summarization can return
Responses ==
    { http_request_error, unknown_ollama_error } \cup Malformed
        \cup WellFormed \cup Surrounded

\* ----- summarize_file_by_llm
LongEnough_never(llm_output) == FALSE

\* llm_output and len(llm_output) >= 100
LongEnough(llm_output) == llm_output # <<>> /\ TextLen(llm_output) >= MinOutputLen

IsErrorString(llm_output) ==
    llm_output = http_request_error \/ llm_output = unknown_ollama_error

Opens(text) == { i \in 1..Len(text) : text[i].t = "{" }

Closes(text) == { i \in 1..Len(text) : text[i].t = "}" }

FirstOpen(text) == CHOOSE i \in Opens(text) : \A j \in Opens(text) : i <= j

LastClose(text) == CHOOSE i \in Closes(text) : \A j \in Closes(text) : j <= i

\* re.search(r'\{.*\}', llm_output, re.DOTALL): greedy, from the first
\* opening brace to the last closing brace after it
HasMatch(text) ==
    /\ Opens(text) # {}
    /\ Closes(text) # {}
    /\ FirstOpen(text) < LastClose(text)

MatchGroup(text) == SubSeq(text, FirstOpen(text), LastClose(text))

\* json.loads succeeds when what the braces enclose is a list of members
Parsable(json_str) ==
    \A i \in 2..(Len(json_str) - 1) : json_str[i].t = "member"

HasKey(json_str, key) ==
    \E i \in 2..(Len(json_str) - 1) : json_str[i].key = key

\* info[key]; of two members of one key the later one is kept
Field(json_str, key) ==
    LET at == { i \in 2..(Len(json_str) - 1) : json_str[i].key = key }
    IN json_str[CHOOSE i \in at : \A j \in at : j <= i]

Result(status, keywords, summary, raised) ==
    [status |-> status, keywords |-> keywords, summary |-> summary,
     raised |-> raised]

Status(status) == Result(status, <<>>, <<>>, "none")

Raised(exception) == Result("none", <<>>, <<>>, exception)

\* summary.strip(), then .replace(file_name, "").strip()
CleanSummary(chars, file_name) == Strip(Remove(Strip(chars), file_name))

\* lines 129-149: what is returned, or raised, for the last output
ParseOutput(llm_output, file_name) ==
    IF IsErrorString(llm_output) THEN Status(llm_output[1].t)
    ELSE IF ~HasMatch(llm_output) THEN Status("json_parse_error")
    ELSE LET json_str == MatchGroup(llm_output)
         IN IF ~Parsable(json_str) THEN Raised("JSONDecodeError")
            ELSE IF ~HasKey(json_str, "summary") THEN Status("json_parse_error")
            ELSE IF Field(json_str, "summary").kind # "string"
                 THEN Raised("AttributeError")
            ELSE IF ~HasKey(json_str, "keywords") THEN Status("json_parse_error")
            ELSE LET summary == CleanSummary(Field(json_str, "summary").chars, file_name)
                     keywords == Field(json_str, "keywords")
                 IN IF Len(summary) < MinSummaryLen
                    THEN Status("invalid_output_error")
                    ELSE IF keywords.kind # "list" THEN Status("json_parse_error")
                    ELSE IF Len(keywords.list) < 1
                         THEN Status("invalid_output_error")
                    ELSE Result("valid_output", keywords.list, summary, "none")

\* sum: the call of summarize_file_by_llm in progress: its position (idle,
\* loop, parse, done), the number of requests sent, the last output and the
\* result.
NoSummarize ==
    [pc |-> "idle", file_name |-> <<>>, retry_count |-> 0, requests |-> 0,
     llm_output |-> <<>>, result |-> Status("none")]

\* ------------------------------------------------------ the organize run
\* app.py, the organize page: the files of a folder are summarized one by
\* one and indexed batch by batch.
\* batch_size is 10 in app.py; the loop is the same for every value, and
\* the model runs it with batches of 2.
batch_size == 2

\* the most files a folder holds
MaxFiles == 4

\* the files of the folder, in the order of os.listdir
RunFileNames == <<"f1", "f2", "f3", "f4", "f5", "f6">>

RunFilePaths ==
    <<"/r/f1.pdf", "/r/f2.pdf", "/r/f3.pdf", "/r/f4.pdf", "/r/f5.pdf", "/r/f6.pdf">>

\* batches = [file_lst[i:i + batch_size] for i in range(0, len(file_lst),
\* batch_size)] when len(file_lst) > batch_size, else the one list file_lst
NumBatches(n) == IF n > batch_size THEN (n + batch_size - 1) \div batch_size ELSE 1

BatchFiles(n, b) ==
    LET first == (b - 1) * batch_size + 1
        last_ == IF b * batch_size < n THEN b * batch_size ELSE n
    IN IF n > batch_size THEN [j \in 1..(last_ - first + 1) |-> first + j - 1]
       ELSE [j \in 1..n |-> j]

\* what summarize_file does for one file: a status with keywords and a
\* summary, or an exception that it lets through (ValueError of
\* parse_document, JSONDecodeError of summarize_file_by_llm)
Summarized(tag, keywords, summary, raised) ==
    [tag |-> tag, keywords |-> keywords, summary |-> summary, raised |-> raised]

SummarizeOutcomes ==
    { Summarized("valid_output", <<"k1">>, "s1", "none"),
      Summarized("valid_output", <<"k1", "k2", "k3", "k4", "k5", "k6">>, "s2", "none"),
      Summarized("valid_output", <<"k1">>, "zero", "none"),
      Summarized("valid_output", <<"k1">>, "inf", "none"),
      Summarized("json_parse_error", <<>>, "", "none"),
      Summarized("none", <<>>, "", "ValueError"),
      Summarized("none", <<>>, "", "JSONDecodeError") }

\* run: the organize run in progress: its position (idle, loop, done,
\* raised), the number n of files of file_lst, the batch b and the position
\* i in it, the loop's variables, and a record of what was done: the files
\* summarize_file was called on, the calls of organize_files, and the batch
\* and pending list at the moment the user asked to stop.
NoRun ==
    [pc |-> "idle", n |-> 0, b |-> 0, i |-> 0, doc_metadata_list |-> <<>>,
     stop_flag |-> FALSE, skipped_files |-> <<>>, num_processed_files |-> 0,
     summarized |-> <<>>, calls |-> <<>>, exception |-> "none",
     stop_b |-> 0, stop_pending |-> <<>>]

\* ------------------------------------------------------- lines of text
\* core/extract_file_text/parse_doc_utils.py.  A line is the sequence of
\* its characters; a character outside ASCII is named by its code point.
Digits == {"0", "1", "2", "3", "4", "5", "6", "7", "8", "9"}

\* the lower-case letter of every upper-case ASCII letter
LowerOf ==
    LET lower == <<"a", "b", "c", "d", "e", "f", "g", "h", "i", "j", "k",
                   "l", "m", "n", "o", "p", "q", "r", "s", "t", "u", "v",
                   "w", "x", "y", "z">>
        upper == <<"A", "B", "C", "D", "E", "F", "G", "H", "I", "J", "K",
                   "L", "M", "N", "O", "P", "Q", "R", "S", "T", "U", "V",
                   "W", "X", "Y", "Z">>
    IN [u \in { upper[k] : k \in 1..26 } |->
            lower[CHOOSE k \in 1..26 : upper[k] = u]]

AsciiLetters == DOMAIN LowerOf \cup { LowerOf[u] : u \in DOMAIN LowerOf }

\* c.isascii() and c.isalpha()
IsAsciiAlpha(c) == c \in AsciiLetters

\* matching under re.IGNORECASE compares the lower-case characters
Lower(c) == IF c \in DOMAIN LowerOf THEN LowerOf[c] ELSE c

\* the characters of s at the positions P, in their order
Subsequence(s, P) ==
    LET indexed == [i \in 1..Len(s) |-> <<i, s[i]>>]
        At(pair) == pair[1] \in P
        chosen == SelectSeq(indexed, At)
    IN [k \in 1..Len(chosen) |-> chosen[k][2]]

\* every character strictly between the positions i and j is whitespace
BlankBetween(line, i, j) ==
    \A k \in (i + 1)..(j - 1) : line[k] \in Whitespace

\* r'^[\d\s。，！——\.\,\=\-\%\&\^\#\@\!\*\(\)\+\_]+$'
OnlyDigitsAndPunctuation(line) ==
    /\ line # <<>>
    /\ \A i \in 1..Len(line) :
        \/ line[i] \in Digits
        \/ line[i] \in Whitespace
        \/ line[i] \in {"U+3002", "U+FF0C", "U+FF01", "U+2014", ".", ",",
                        "=", "-", "%", "&", "^", "#", "@", "!", "*", "(",
                        ")", "+", "_"}

is_catalog_line(given) ==
    LET line == Strip(given)
        \* r"[·•\.・\s]{6,}" found somewhere in the line
        leaders ==
            \E i \in 1..(Len(line) - 5) : \A j \in i..(i + 5) :
                line[j] \in ({"U+00B7", "U+2022", ".", "U+30FB"}
                             \cup Whitespace)
        \* r"[ixv\d]{1,5}$", re.IGNORECASE, found at the end of the line
        page_number == Lower(line[Len(line)]) \in ({"i", "x", "v"} \cup Digits)
        \* r"\d+(\.\d+)*": digits in groups separated by single dots
        IsSectionNumber(s) ==
            /\ \A i \in 1..Len(s) : s[i] \in (Digits \cup {"."})
            /\ s[1] # "." /\ s[Len(s)] # "."
            /\ \A i \in 1..(Len(s) - 1) : ~(s[i] = "." /\ s[i + 1] = ".")
        \* r"^\d+(\.\d+)*\s" matched at the start of the line
        section_number ==
            \E k \in 2..Len(line) :
                /\ line[k] \in Whitespace
                /\ IsSectionNumber(SubSeq(line, 1, k - 1))
    IN IF Len(line) < 10 THEN FALSE
       ELSE IF leaders /\ page_number THEN TRUE
       ELSE IF section_number THEN TRUE
       ELSE FALSE

\* REMOVE_PATTERNS, each searched for anywhere in the line under
\* re.IGNORECASE.  The optional prefix of the first pattern and the ".*"
\* that ends the banner patterns match the empty string.
REMOVE_PATTERNS ==
    <<"page_cn", "page_en", "page_of", "copyright_cn", "secret_cn",
      "confidential", "disclaimer_cn">>

\* re.search(pat, line, flags=re.IGNORECASE)
Search(pat, line) ==
    LET lowered == [i \in 1..Len(line) |-> Lower(line[i])]
        Contains(word) == Occurrences(lowered, word) # {}
    IN CASE pat = "page_cn" ->
            \* r"第?\s*\d{1,3}\s*页"
            \E j \in { k \in 1..Len(line) : line[k] = "U+9875" } :
                \E i \in 1..(j - 1) :
                    line[i] \in Digits /\ BlankBetween(line, i, j)
         [] pat = "page_en" ->
            \* r"Page\s*\d+"
            \E i \in Occurrences(lowered, <<"p", "a", "g", "e">>) :
                \E j \in (i + 4)..Len(line) :
                    line[j] \in Digits /\ BlankBetween(line, i + 3, j)
         [] pat = "page_of" ->
            \* r"\d+\s*/\s*\d+"
            \E s \in { k \in 1..Len(line) : line[k] = "/" } :
                /\ \E i \in 1..(s - 1) :
                        line[i] \in Digits /\ BlankBetween(line, i, s)
                /\ \E j \in (s + 1)..Len(line) :
                        line[j] \in Digits /\ BlankBetween(line, s, j)
         [] pat = "copyright_cn" ->
            Contains(<<"U+7248", "U+6743", "U+6240", "U+6709">>)
         [] pat = "secret_cn" -> Contains(<<"U+4FDD", "U+5BC6">>)
         [] pat = "confidential" ->
            Contains(<<"c", "o", "n", "f", "i", "d", "e", "n", "t", "i",
                       "a", "l">>)
         [] pat = "disclaimer_cn" ->
            Contains(<<"U+514D", "U+8D23", "U+58F0", "U+660E">>)

MatchesRemovePattern_never(line) == FALSE

\* any(re.search(pat, line, flags=re.IGNORECASE) for pat in REMOVE_PATTERNS)
MatchesRemovePattern(line) ==
    \E p \in 1..Len(REMOVE_PATTERNS) : Search(REMOVE_PATTERNS[p], line)

check_line_validity(given, min_line_len) ==
    LET line == Strip(given)
    IN IF Len(line) <= min_line_len THEN FALSE
       ELSE IF OnlyDigitsAndPunctuation(line) THEN FALSE
       ELSE IF is_catalog_line(line) THEN FALSE
       ELSE IF MatchesRemovePattern(line) THEN FALSE
       ELSE TRUE

should_keep_space_always(s, idx) == TRUE

should_keep_space(s, idx) ==
    IF s[idx] # " " THEN TRUE
    ELSE \/ (idx > 1 /\ IsAsciiAlpha(s[idx - 1]))
         \/ (idx < Len(s) /\ IsAsciiAlpha(s[idx + 1]))

clean_whitespace(line) ==
    LET new_line == Strip(line)
        kept == Subsequence(new_line,
                    { i \in 1..Len(new_line) :
                        new_line[i] # " " \/ should_keep_space(new_line, i) })
    \* re.sub(r' +', ' ', kept): of a run of spaces the first one stays
    IN Subsequence(kept,
            { i \in 1..Len(kept) :
                ~(kept[i] = " " /\ i > 1 /\ kept[i - 1] = " ") })

\* ----- the lines the extractors meet
\* the longest line put together from a Latin letter, a digit, a space,
\* a tab and a letter outside ASCII
MaxLineLen == 4

\* the texts of the examples, by name
Text(name) ==
    CASE name = "Page 12" ->
            <<"P", "a", "g", "e", " ", "1", "2">>
      [] name = "page_cn" ->
            <<"U+7B2C", "3", "U+9875">>
      [] name = "1/10" ->
            <<"1", "/", "1", "0">>
      [] name = "banner" ->
            <<"C", "o", "n", "f", "i", "d", "e", "n", "t", "i", "a", "l",
              " ", "U+2014", " ", "i", "n", "t", "e", "r", "n", "a", "l",
              " ", "u", "s", "e", " ", "o", "n", "l", "y">>
      [] name = "sentence" ->
            <<"T", "h", "e", " ", "q", "u", "a", "r", "t", "e", "r", "l",
              "y", " ", "r", "e", "v", "e", "n", "u", "e", " ", "g", "r",
              "e", "w", " ", "b", "y", " ", "1", "2", "%", " ", "d", "r",
              "i", "v", "e", "n", " ", "b", "y", " ", "n", "e", "w", " ",
              "s", "t", "o", "r", "e", " ", "o", "p", "e", "n", "i", "n",
              "g", "s">>
      [] name = "Hello   World" ->
            <<"H", "e", "l", "l", "o", " ", " ", " ", "W", "o", "r", "l",
              "d">>
      [] name = "Hello World" ->
            <<"H", "e", "l", "l", "o", " ", "W", "o", "r", "l", "d">>
      [] name = "ni hao shi jie" ->
            <<"U+4F60", "U+597D", " ", "U+4E16", "U+754C">>
      [] name = "nihaoshijie" ->
            <<"U+4F60", "U+597D", "U+4E16", "U+754C">>
      [] name = "contents" ->
            <<"I", "n", "t", "r", "o", "d", "u", "c", "t", "i", "o", "n",
              " ", ".", ".", ".", ".", ".", ".", ".", ".", " ", "1", "2">>
      [] name = "heading" ->
            <<"1", ".", "2", " ", "O", "v", "e", "r", "v", "i", "e", "w",
              " ", "o", "f", " ", "r", "e", "s", "u", "l", "t", "s">>
      [] name = "figures" ->
            <<"1", "2", ".", "5", "%", " ", "(", "+", "3", ")">>
      [] name = "PAGE 7" ->
            <<"P", "A", "G", "E", " ", "7", " ", "o", "f", " ", "t", "h",
              "e", " ", "r", "e", "p", "o", "r", "t">>
      [] name = "3 / 4" ->
            <<"s", "e", "e", " ", "3", " ", "/", " ", "4", " ", "o", "f",
              " ", "i", "t">>
      [] name = "words" ->
            <<"n", "e", "w", " ", "s", "t", "o", "r", "e", " ", "o", "p",
              "e", "n", "i", "n", "g", "s">>
      [] name = "Overview" ->
            <<"O", "v", "e", "r", "v", "i", "e", "w">>
      [] name = "2. Plan" ->
            <<"2", ".", " ", "P", "l", "a", "n">>
      [] name = "bullet" ->
            <<"U+2022", " ", "i", "t", "e", "m">>
      [] name = "ten" ->
            <<"a", "b", "c", "d", "e", "f", "g", "h", "i", "j">>
      [] name = "nine" ->
            <<"a", "b", "c", "d", "e", "f", "g", "h", "i">>

Lines ==
    UNION { [1..n -> {"a", "1", " ", "\t", "U+4F60"}] : n \in 0..MaxLineLen }
    \cup { Text(name) :
            name \in {"Page 12", "page_cn", "1/10", "banner", "sentence",
                      "Hello   World", "ni hao shi jie", "contents",
                      "heading", "figures", "PAGE 7", "3 / 4", "words"} }

\* ext: the extraction call being answered - its operation, inputs and
\* result - or NoExt between two calls.
NoExt ==
    [op |-> "none", line |-> <<>>, min_line_len |-> 0, valid |-> FALSE,
     cleaned |-> <<>>, slide |-> <<>>, raised |-> "none",
     shape_texts |-> <<>>, flags |-> <<>>, all_headers |-> <<>>,
     doc |-> <<>>, only_text |-> FALSE, all_blocks |-> <<>>,
     result |-> <<>>]

\* ------------------------------------------------------ slide headers
\* core/extract_file_text/parse_ppt.py, parse_ppt_to_get_headers.  A slide
\* is the sequence of the paragraphs of its text frames in the order the
\* shapes are scanned; a paragraph has its text, the top of its shape and
\* the explicit font sizes of its runs (NoSize where a run has none).
min_header_fontsize == 14

min_header_rank == 3

NoSize == 0

\* font_size before its first assignment
Unbound == -1

\* the most paragraphs on a slide
MaxParas == 5

Paragraph(text, top, runs) == [text |-> text, top |-> top, runs |-> runs]

\* slides of paragraphs of one run each, laid out from the top down, and
\* slides of one or two paragraphs with any text, position and runs
Slides ==
    UNION { { [k \in 1..n |-> Paragraph(Text(s[k][1]), k, <<s[k][2]>>)] :
                s \in [1..n -> { <<"Overview", 20>>, <<"Overview", 10>>,
                                 <<"2. Plan", 10>>, <<"bullet", 10>> }] }
            : n \in 0..MaxParas }
    \cup UNION { [1..n ->
                    { Paragraph(text, top, runs) :
                        text \in {Text("Overview"), Text("bullet"),
                                  Text("Page 12"), <<>>},
                        top \in 1..2,
                        runs \in { <<>>, <<NoSize>>, <<20>>, <<NoSize, 20>> } }]
                 : n \in 1..2 }

\* lines 96-101: the size of the first run that has one; 10 when there
\* are runs and none has a size; what font_size held before when the
\* paragraph has no run
FontSizeOf(runs, font_size) ==
    LET sized == { r \in 1..Len(runs) : runs[r] # NoSize }
    IN IF sized # {}
       THEN runs[CHOOSE r \in sized : \A q \in sized : r <= q]
       ELSE IF runs # <<>> THEN 10
       ELSE font_size

\* lines 88-103, from paragraph p on; para is the position of the paragraph
\* on the slide
RECURSIVE ScanParagraphs(_, _, _, _)
ScanParagraphs(slide, p, font_size, shape_texts) ==
    IF p > Len(slide) THEN [shape_texts |-> shape_texts, raised |-> "none"]
    ELSE IF slide[p].text = <<>> \/ ~check_line_validity(slide[p].text, 2)
    THEN ScanParagraphs(slide, p + 1, font_size, shape_texts)
    ELSE LET size == FontSizeOf(slide[p].runs, font_size)
         IN IF size = Unbound
            THEN [shape_texts |-> shape_texts, raised |-> "UnboundLocalError"]
            ELSE ScanParagraphs(slide, p + 1, size,
                    Append(shape_texts,
                           [text |-> clean_whitespace(slide[p].text),
                            top |-> slide[p].top, font_size |-> size,
                            para |-> p]))

\* shape_texts.sort(key=lambda x: x['top']): ascending and stable
SortByTop(s) ==
    [k \in 1..Len(s) |->
        s[CHOOSE i \in 1..Len(s) :
            Cardinality({ j \in 1..Len(s) :
                \/ s[j].top < s[i].top
                \/ (s[j].top = s[i].top /\ j <= i) }) = k]]

\* re.match(r'^\d+[\.\s]', text)
HasNumberPrefix(text) ==
    \E k \in 2..Len(text) :
        /\ text[k] \in ({"."} \cup Whitespace)
        /\ \A j \in 1..(k - 1) : text[j] \in Digits

\* text.startswith(('• ', '- ', '◦ ', '▪ '))
HasBulletPrefix(text) ==
    /\ Len(text) >= 2
    /\ text[1] \in {"U+2022", "-", "U+25E6", "U+25AA"}
    /\ text[2] = " "

\* lines 107-119 for the paragraph at index i of the sorted list, i
\* counting from 0
is_header(item, i) ==
    IF i <= min_header_rank THEN item.font_size >= min_header_fontsize
    ELSE IF HasNumberPrefix(item.text) THEN TRUE
    ELSE IF HasBulletPrefix(item.text) THEN TRUE
    ELSE FALSE

\* one slide of parse_ppt_to_get_headers: the sorted paragraphs, which of
\* them are headers, and all_headers (one entry, the headers of the slide,
\* when there are any)
parse_ppt_to_get_headers(slide) ==
    LET scan == ScanParagraphs(slide, 1, Unbound, <<>>)
        sorted == SortByTop(scan.shape_texts)
        flags == [k \in 1..Len(sorted) |-> is_header(sorted[k], k - 1)]
        headers == Subsequence(sorted, { k \in 1..Len(sorted) : flags[k] })
        slide_headers == [k \in 1..Len(headers) |-> headers[k].text]
    IN IF scan.raised # "none"
       THEN [raised |-> scan.raised, shape_texts |-> <<>>, flags |-> <<>>,
             all_headers |-> <<>>]
       ELSE [raised |-> "none", shape_texts |-> sorted, flags |-> flags,
             all_headers |-> IF slide_headers # <<>> THEN <<slide_headers>>
                             ELSE <<>>]

\* ---------------------------------------------------------- pdf blocks
\* core/extract_file_text/parse_pdf.py, parse_pdf_to_block_info.  A
\* document is the sequence of its pages; a page has its height and its
\* blocks in the order the reader gives them; a block has its type, the
\* top y0 and the bottom y1 of its box (in whole points, y growing down
\* the page) and its lines, each the sequence of the texts of its spans.
min_block_len == 10

header_height == 100

footer_height == 100

PageHeight == 300

\* the most blocks in a document
MaxBlocks == 2

\* text blocks between the bands: a sentence in two spans after a page
\* marker; a text that is 10 characters long; one that is 9 long; two
\* lines that are 11 characters when joined and 8 when cleaned; an empty
\* line and a page marker.  An image block, a block that starts in the
\* header band and one that ends in the footer band.
Blocks ==
    LET top == header_height
        bottom == PageHeight - footer_height
        ten == << <<Text("ten")>> >>
    IN { [type |-> 0, y0 |-> top, y1 |-> bottom, lines |-> lines] :
            lines \in { << <<Text("Page 12")>>,
                           <<Text("words"), Text("Overview")>> >>,
                        ten,
                        << <<Text("nine")>> >>,
                        << <<Text("ni hao shi jie")>>,
                           <<Text("ni hao shi jie")>> >>,
                        << <<<<>>>>, <<Text("Page 12")>> >> } }
       \cup { [type |-> 1, y0 |-> top, y1 |-> bottom, lines |-> ten],
              [type |-> 0, y0 |-> top - 1, y1 |-> bottom, lines |-> ten],
              [type |-> 0, y0 |-> top, y1 |-> bottom + 1, lines |-> ten] }

\* the documents of one or two pages with at most MaxBlocks blocks
PdfDocs ==
    LET Pages == { [height |-> PageHeight, blocks |-> blocks] :
                    blocks \in UNION { [1..n -> Blocks] : n \in 0..MaxBlocks } }
    IN { doc \in UNION { [1..n -> Pages] : n \in 1..2 } :
            Len(doc[1].blocks) + Len(doc[Len(doc)].blocks) <=
                IF Len(doc) = 1 THEN 2 * MaxBlocks ELSE MaxBlocks }

\* " ".join(texts)
RECURSIVE JoinSpace(_)
JoinSpace(texts) ==
    IF texts = <<>> THEN <<>>
    ELSE IF Len(texts) = 1 THEN texts[1]
    ELSE texts[1] \o <<" ">> \o JoinSpace(Tail(texts))

\* lines 39-43: the texts of the lines of a block that are kept
RECURSIVE AcceptedLines(_)
AcceptedLines(lines) ==
    IF lines = <<>> THEN <<>>
    ELSE LET line_text == JoinSpace(Head(lines))
         IN IF line_text # <<>> /\ check_line_validity(line_text, 2)
            THEN <<line_text>> \o AcceptedLines(Tail(lines))
            ELSE AcceptedLines(Tail(lines))

InBand_never(b, page_height) == FALSE

\* y0 < header_height or y1 > (page_height - footer_height)
InBand(b, page_height) ==
    b.y0 < header_height \/ b.y1 > (page_height - footer_height)

\* lines 46-48
BlockText(b) == Strip(clean_whitespace(JoinSpace(AcceptedLines(b.lines))))

\* lines 31-50: the block is appended to all_blocks
Kept(b, page_height) ==
    /\ b.type = 0
    /\ ~InBand(b, page_height)
    /\ AcceptedLines(b.lines) # <<>>
    /\ Len(BlockText(b)) >= min_block_len

\* lines 26-70, from block k of page page_num on; at is the place of the
\* block in the document: its page and its position on the page, both
\* counted from 1
RECURSIVE AllBlocks(_, _, _)
AllBlocks(doc, page_num, k) ==
    IF page_num > Len(doc) THEN <<>>
    ELSE IF k > Len(doc[page_num].blocks) THEN AllBlocks(doc, page_num + 1, 1)
    ELSE LET b == doc[page_num].blocks[k]
         IN (IF Kept(b, doc[page_num].height)
             THEN << [page |-> page_num, text |-> BlockText(b), y |-> b.y0,
                      height |-> b.y1 - b.y0, at |-> <<page_num, k>>] >>
             ELSE <<>>)
            \o AllBlocks(doc, page_num, k + 1)

parse_pdf_to_block_info(doc, only_text) ==
    LET all_blocks == AllBlocks(doc, 1, 1)
    IN [all_blocks |-> all_blocks,
        result |-> IF only_text
                   THEN [k \in 1..Len(all_blocks) |-> all_blocks[k].text]
                   ELSE all_blocks]

\* ------------------------------------------------------------ the system
\* last: the call in progress of being answered - its operation, inputs
\* and result - or NoCall between two calls.
NoCall ==
    [op |-> "none", model |-> CHOOSE m \in Models : TRUE, before |-> NoDisk,
     batch |-> <<>>, status |-> "none", invalid_files |-> <<>>,
     encoded |-> FALSE, added |-> <<>>, after_stale |-> FALSE,
     query |-> "", top_k |-> 0, raw |-> <<>>, results |-> <<>>]

\* hist: ok - every index_files call so far returned valid_output and the
\* ids of all their documents were pairwise distinct; seen - those ids;
\* written - the metadata of the documents that survived, by key;
\* survived - their number (the last three are kept only while ok holds);
\* stale - some call returned model_changed_error.
Init ==
    /\ disk = NoDisk
    /\ active \in Models
    /\ last = NoCall
    /\ hist = [ok |-> TRUE, seen |-> {}, written |-> <<>>, survived |-> 0,
               stale |-> FALSE]
    /\ sum = NoSummarize
    /\ run = NoRun
    /\ ext = NoExt

BatchIds(batch) == { compute_document_id(batch[i].file_path) : i \in 1..Len(batch) }

DistinctIds(batch) == Cardinality(BatchIds(batch)) = Len(batch)

\* the positions of a batch whose vector under model m is a regular one
SurvivingPositions(m, batch) ==
    { i \in 1..Len(batch) :
        Encode(m, build_text_for_embedding(batch[i])).kind = "regular" }

KeyOf(doc) == ToString(compute_document_id(doc.file_path))

\* the history after one more batch whose surviving documents are docs
Record(written, docs) ==
    [k \in (DOMAIN written) \cup { KeyOf(d) : d \in docs } |->
        IF k \in DOMAIN written THEN written[k]
        ELSE CHOOSE d \in docs : KeyOf(d) = k]

\* organize_files: one call of index_files on the configured paths with
\* the configured model.
IndexBatch ==
    /\ last.op = "none"
    /\ \E batch \in Batches :
        LET r == index_files(disk, batch, active.name, active)
            fine == /\ hist.ok
                    /\ r.status = "valid_output"
                    /\ DistinctIds(batch)
                    /\ BatchIds(batch) \cap hist.seen = {}
            surviving == SurvivingPositions(active, batch)
        IN /\ disk' = r.disk
           /\ last' = [NoCall EXCEPT !.op = "index", !.model = active, !.before = disk,
                           !.batch = batch, !.status = r.status,
                           !.invalid_files = r.invalid_files,
                           !.encoded = r.encoded, !.added = r.added,
                           !.after_stale = hist.stale]
           /\ hist' = [ok |-> fine,
                       seen |-> IF fine THEN hist.seen \cup BatchIds(batch) ELSE {},
                       written |-> IF fine
                                   THEN Record(hist.written, { batch[i] : i \in surviving })
                                   ELSE <<>>,
                       survived |-> IF fine THEN hist.survived + Cardinality(surviving)
                                    ELSE 0,
                       stale |-> hist.stale \/ r.status = "model_changed_error"]
           /\ UNCHANGED <<active, sum, run, ext>>

SearchRecord(op, query, top_k, r) ==
    [NoCall EXCEPT !.op = op, !.model = active, !.status = r.outcome,
                   !.query = query, !.top_k = top_k, !.raw = r.raw, !.results = r.results]

\* the search page: search_files with the query and the chosen top_k
SearchFiles ==
    /\ last.op = "none"
    /\ \E query \in Queries, top_k \in 1..MaxK :
        /\ last' = SearchRecord("search_files", query, top_k, search_files(disk, query, top_k, active))
        /\ UNCHANGED <<disk, active, hist, sum, run, ext>>

\* search_by_embedding called on its own
SearchByEmbedding ==
    /\ last.op = "none"
    /\ \E query \in Queries, top_k \in 1..MaxK :
        /\ last' = SearchRecord("search_by_embedding", query, top_k,
                       search_by_embedding(disk, <<"query: ", query>>, active, top_k))
        /\ UNCHANGED <<disk, active, hist, sum, run, ext>>

\* the configured embedding model is replaced between two runs
SwitchModel ==
    /\ last.op = "none"
    /\ active' \in Models \ {active}
    /\ UNCHANGED <<disk, last, hist, sum, run, ext>>

\* the caller has taken the result of the call; the next operation starts
Return ==
    /\ last.op # "none"
    /\ last' = NoCall
    /\ UNCHANGED <<disk, active, hist, sum, run, ext>>

Next == IndexBatch \/ SearchFiles \/ SearchByEmbedding \/ SwitchModel \/ Return

Spec == Init /\ [][Next]_vars

\* ------------------------------------ summarize_file_by_llm, step by step
\* the call starts: retry_count = 0
StartSummarize ==
    /\ sum.pc = "idle"
    /\ \E file_name \in FileNames :
        sum' = [NoSummarize EXCEPT !.pc = "loop", !.file_name = file_name]
    /\ UNCHANGED <<disk, active, last, hist, run, ext>>

\* one turn of the while loop: a request is sent, and its answer either
\* ends the loop or counts as a retry
Request ==
    /\ sum.pc = "loop"
    /\ sum.retry_count < max_retries
    /\ \E llm_output \in Responses :
        LET retry_count == IF LongEnough(llm_output) THEN sum.retry_count
                           ELSE sum.retry_count + 1
        IN sum' = [sum EXCEPT !.llm_output = llm_output,
                              !.requests = sum.requests + 1,
                              !.retry_count = retry_count,
                              !.pc = IF LongEnough(llm_output) \/ retry_count >= max_retries
                                     THEN "parse" ELSE "loop"]
    /\ UNCHANGED <<disk, active, last, hist, run, ext>>

\* the rest of the function, on the last output
Finish ==
    /\ sum.pc = "parse"
    /\ sum' = [sum EXCEPT !.pc = "done",
                          !.result = ParseOutput(sum.llm_output, sum.file_name)]
    /\ UNCHANGED <<disk, active, last, hist, run, ext>>

\* the caller has taken the result
ReturnSummarize ==
    /\ sum.pc = "done"
    /\ sum' = NoSummarize
    /\ UNCHANGED <<disk, active, last, hist, run, ext>>

NextSummarize == StartSummarize \/ Request \/ Finish \/ ReturnSummarize

SpecSummarize == Init /\ [][NextSummarize]_vars

\* ------------------------------------------- the organize run, step by step
StopRequested_ignored(stop_flag) == FALSE

\* if st.session_state.stop_flag: break
StopRequested(stop_flag) == stop_flag

IsFatal_never(organize_status_str) == FALSE

\* organize_status_str.endswith("error"), of the statuses of index_files
IsFatal(organize_status_str) ==
    organize_status_str \in { "model_changed_error", "no_valid_vectors_error" }

\* output_tag.endswith("error"): every status but valid_output does
IsErrorTag(output_tag) == output_tag # "valid_output"

FileName(f) == <<RunFileNames[f], "pdf">>

\* the metadata appended for file f summarized as s
RunDoc(f, s) == Doc(FileName(f), RunFilePaths[f], s.keywords, s.summary)

Skipped(tag, file_name) == [tag |-> tag, file |-> file_name]

\* an index built earlier, by one call of index_files under e5-small
BuiltDisk ==
    index_files(NoDisk, <<Doc(<<"a", "pdf">>, "/x/a.pdf", <<"k1">>, "s1")>>,
                "e5-small", [name |-> "e5-small", dim |-> 2]).disk

InitRun ==
    /\ disk \in { NoDisk, BuiltDisk }
    /\ active \in Models
    /\ last = NoCall
    /\ hist = [ok |-> TRUE, seen |-> {}, written |-> <<>>, survived |-> 0,
               stale |-> FALSE]
    /\ sum = NoSummarize
    /\ run = NoRun
    /\ ext = NoExt

\* Start is pressed on a folder of n files that are not indexed yet
StartRun ==
    /\ run.pc = "idle"
    /\ \E n \in 1..MaxFiles :
        run' = [NoRun EXCEPT !.pc = "loop", !.n = n, !.b = 1, !.i = 1]
    /\ UNCHANGED <<disk, active, last, hist, sum, ext>>

\* stop(): the Stop button is pressed while the run goes on
Stop ==
    /\ run.pc = "loop"
    /\ ~run.stop_flag
    /\ run' = [run EXCEPT !.stop_flag = TRUE, !.stop_b = run.b,
                          !.stop_pending = run.doc_metadata_list]
    /\ UNCHANGED <<disk, active, last, hist, sum, ext>>

\* one turn of the inner loop: the next file of the batch is summarized
SummarizeNext ==
    /\ run.pc = "loop"
    /\ run.i <= Len(BatchFiles(run.n, run.b))
    /\ ~StopRequested(run.stop_flag)
    /\ \E s \in SummarizeOutcomes :
        LET f == BatchFiles(run.n, run.b)[run.i]
            called == [run EXCEPT !.summarized = Append(@, f)]
        IN run' = IF s.raised # "none"
                  THEN [called EXCEPT !.pc = "raised", !.exception = s.raised]
                  ELSE IF IsErrorTag(s.tag)
                  THEN [called EXCEPT !.i = @ + 1,
                           !.skipped_files = Append(@, Skipped(s.tag, FileName(f)))]
                  ELSE [called EXCEPT !.i = @ + 1,
                           !.doc_metadata_list = Append(@, RunDoc(f, s)),
                           !.num_processed_files = @ + 1]
    /\ UNCHANGED <<disk, active, last, hist, sum, ext>>

\* the inner loop is over (batch exhausted, or break): the batch is
\* organized when it is not empty, and the run goes to the next batch or
\* ends
EndBatch ==
    /\ run.pc = "loop"
    /\ run.i > Len(BatchFiles(run.n, run.b)) \/ StopRequested(run.stop_flag)
    /\ LET organized == run.doc_metadata_list # <<>>
           r == index_files(disk, run.doc_metadata_list, active.name, active)
           asserted == organized /\ r.status = "AssertionError"
           fatal == organized /\ ~asserted /\ IsFatal(r.status)
           calls == IF organized
                    THEN Append(run.calls, [b |-> run.b, docs |-> run.doc_metadata_list,
                                            status |-> r.status,
                                            invalid_files |-> r.invalid_files])
                    ELSE run.calls
           skipped_files ==
               IF organized /\ ~asserted /\ ~fatal
               THEN run.skipped_files
                        \o [j \in 1..Len(r.invalid_files) |->
                               Skipped("embedding_error", r.invalid_files[j])]
               ELSE run.skipped_files
           nothing_done == IF run.n > batch_size THEN run.num_processed_files = 0
                           ELSE ~organized
           after == [run EXCEPT !.calls = calls, !.skipped_files = skipped_files,
                                !.doc_metadata_list = <<>>,
                                !.stop_flag = run.stop_flag \/ fatal]
       IN /\ disk' = IF organized THEN r.disk ELSE disk
          /\ run' = IF asserted
                    THEN [run EXCEPT !.pc = "raised", !.exception = "AssertionError",
                                     !.calls = calls]
                    ELSE IF run.b < NumBatches(run.n)
                    THEN [after EXCEPT !.b = @ + 1, !.i = 1]
                    ELSE [after EXCEPT !.pc = "done",
                                       !.stop_flag = @ \/ nothing_done]
    /\ UNCHANGED <<active, last, hist, sum, ext>>

NextRun == StartRun \/ Stop \/ SummarizeNext \/ EndBatch

SpecRun == InitRun /\ [][NextRun]_vars

\* ------------------------------------------- the extractors, call by call
\* check_line_validity(line, min_line_len=2)
CheckLine ==
    /\ ext.op = "none"
    /\ \E line \in Lines, min_line_len \in {2, 3} :
        ext' = [NoExt EXCEPT !.op = "check_line_validity", !.line = line,
                             !.min_line_len = min_line_len,
                             !.valid = check_line_validity(line, min_line_len)]
    /\ UNCHANGED <<disk, active, last, hist, sum, run>>

CleanLine ==
    /\ ext.op = "none"
    /\ \E line \in Lines :
        ext' = [NoExt EXCEPT !.op = "clean_whitespace", !.line = line,
                             !.cleaned = clean_whitespace(line)]
    /\ UNCHANGED <<disk, active, last, hist, sum, run>>

ExtractHeaders ==
    /\ ext.op = "none"
    /\ \E slide \in Slides :
        LET r == parse_ppt_to_get_headers(slide)
        IN ext' = [NoExt EXCEPT !.op = "parse_ppt_to_get_headers",
                                !.slide = slide, !.raised = r.raised,
                                !.shape_texts = r.shape_texts,
                                !.flags = r.flags,
                                !.all_headers = r.all_headers]
    /\ UNCHANGED <<disk, active, last, hist, sum, run>>

ParsePdf ==
    /\ ext.op = "none"
    /\ \E doc \in PdfDocs, only_text \in BOOLEAN :
        LET r == parse_pdf_to_block_info(doc, only_text)
        IN ext' = [NoExt EXCEPT !.op = "parse_pdf_to_block_info",
                                !.doc = doc, !.only_text = only_text,
                                !.all_blocks = r.all_blocks,
                                !.result = r.result]
    /\ UNCHANGED <<disk, active, last, hist, sum, run>>

\* the caller has taken the result of the call
ReturnExtract ==
    /\ ext.op # "none"
    /\ ext' = NoExt
    /\ UNCHANGED <<disk, active, last, hist, sum, run>>

NextExtract ==
    CheckLine \/ CleanLine \/ ExtractHeaders \/ ParsePdf \/ ReturnExtract

\* the extractors read no index and no model: one of the initial states
InitExtract == Init /\ active.name = "e5-small"

SpecExtract == InitExtract /\ [][NextExtract]_vars

\* ------------------------------------- index_files, stopped and resumed
\* The index under the events the claims on persistence speak of: the
\* process stops inside save_index_and_metadata, and the fingerprint file
\* is replaced by a JSON value that is no object with a "fingerprint"
\* field.  The batches hold one path described twice, once with a text
\* that encodes to an all-zero vector, and a path of the same id as
\* another whose text encodes to an all-zero vector too.
FaultBatches ==
    UNION { [1..n -> { Doc(<<"a", "pdf">>, "/x/a.pdf", <<"k1">>, "s1"),
                       Doc(<<"a", "pdf">>, "/x/a.pdf", <<"k1">>, "zero"),
                       Doc(<<"b", "pdf">>, "/x/b.pdf", <<"k2">>, "s2"),
                       Doc(<<"d", "pdf">>, "/x/d.pdf", <<"k3">>, "zero") }]
            : n \in 1..MaxBatch }

IndexRecord(op, batch, r) ==
    [NoCall EXCEPT !.op = op, !.model = active, !.before = disk,
                   !.batch = batch, !.status = r.status,
                   !.invalid_files = r.invalid_files,
                   !.encoded = r.encoded, !.added = r.added]

IndexAnyBatch ==
    /\ last.op = "none"
    /\ \E batch \in FaultBatches :
        LET r == index_files(disk, batch, active.name, active)
        IN /\ disk' = r.disk
           /\ last' = IndexRecord("index", batch, r)
    /\ UNCHANGED <<active, hist, sum, run, ext>>

\* save_index_and_metadata left after faiss.write_index (line 157) or
\* after the metadata file is written (line 161): the files written so
\* far are those of saved, the others are as they were
PartialSave(d, saved, stage) ==
    IF stage = "index"
    THEN [d EXCEPT !.index_exists = TRUE, !.index = saved.index]
    ELSE [d EXCEPT !.index_exists = TRUE, !.index = saved.index,
                   !.metadata_with_id_exists = TRUE,
                   !.metadata = saved.metadata]

\* a call of index_files that reaches the save and stops inside it
StopInSave ==
    /\ last.op = "none"
    /\ \E batch \in FaultBatches, stage \in {"index", "metadata"} :
        LET r == index_files(disk, batch, active.name, active)
        IN /\ r.status = "valid_output"
           /\ disk' = PartialSave(disk, r.disk, stage)
           /\ last' = IndexRecord("stopped", batch,
                                  [r EXCEPT !.status = "none"])
    /\ UNCHANGED <<active, hist, sum, run, ext>>

\* the fingerprint file now holds a JSON value without the field
ForeignFingerprint ==
    /\ last.op = "none"
    /\ disk.model_fingerprint_exists
    /\ disk.model_fingerprint.has_fingerprint
    /\ disk' = [disk EXCEPT !.model_fingerprint = NoDisk.model_fingerprint]
    /\ UNCHANGED <<active, last, hist, sum, run, ext>>

NextFaults ==
    IndexAnyBatch \/ StopInSave \/ ForeignFingerprint \/ SwitchModel \/ Return

SpecFaults == Init /\ [][NextFaults]_vars

\* ================================================================ claims
IsIndexCall == last.op = "index"

IsSearchCall == last.op \in {"search_files", "search_by_embedding"}

NamesInOrder(batch) == [i \in 1..Len(batch) |-> batch[i].file_name]

IdAt(batch, i) == compute_document_id(batch[i].file_path)

Keys(d) == DOMAIN d.metadata

\* the stored fingerprint is not that of model m
StoredDiffers(d, m) ==
    /\ d.model_fingerprint.has_fingerprint
    /\ d.model_fingerprint.fingerprint # get_model_fingerprint(m.name, m)

ThreeFiles(d) ==
    d.index_exists /\ d.metadata_with_id_exists /\ d.model_fingerprint_exists

\* the index a call works on: the loaded one, or a fresh empty one
BaseEntries(d) == IF ThreeFiles(d) THEN d.index.entries ELSE <<>>

Survivors == SurvivingPositions(last.model, last.batch)

RECURSIVE InOrder(_, _, _)
InOrder(S, n, i) ==
    IF i > n THEN <<>>
    ELSE IF i \in S THEN <<i>> \o InOrder(S, n, i + 1) ELSE InOrder(S, n, i + 1)

\* C1: starting from an absent index, after index_files calls that all
\* returned valid_output on documents with pairwise distinct DocumentIds
\* (within and across batches), the store holds exactly as many vectors and
\* metadata entries as documents survived in all batches, and every entry
\* written by an earlier batch is still there under its id, unchanged.
C1_IncrementalIndexing ==
    hist.ok =>
        /\ ntotal(disk.index) = hist.survived
        /\ Cardinality(Keys(disk)) = hist.survived
        /\ disk.metadata = hist.written
        /\ IsIndexCall =>
               \A k \in Keys(last.before) :
                   k \in Keys(disk) /\ disk.metadata[k] = last.before.metadata[k]

C1_Witness ==
    /\ hist.ok
    /\ IsIndexCall
    /\ ntotal(last.before.index) >= 1
    /\ Len(last.added) >= 1
    /\ hist.survived = 3

\* C2: when the three artifacts exist and the stored fingerprint differs
\* from the active model's, index_files returns model_changed_error, its
\* invalid list is the file names of all input documents in input order,
\* and no artifact is changed.
C2_FingerprintGate ==
    (IsIndexCall /\ ThreeFiles(last.before) /\ StoredDiffers(last.before, last.model)) =>
        /\ last.status = "model_changed_error"
        /\ last.invalid_files = NamesInOrder(last.batch)
        /\ disk = last.before
        /\ ntotal(disk.index) = ntotal(last.before.index)

C2_Witness ==
    /\ IsIndexCall
    /\ last.status = "model_changed_error"
    /\ Len(last.batch) = 2
    /\ last.batch[1].file_name # last.batch[2].file_name
    /\ ntotal(disk.index) >= 1

\* C3: when index_files has encoded a batch of which at least one but not
\* all vectors survive the filter (the surviving documents having pairwise
\* distinct DocumentIds, the precondition of the operation), it returns
\* valid_output, appends exactly one vector per surviving position under
\* that position's id, and returns as invalid the file names of the
\* discarded positions in input order: every position is either added or
\* reported, never both and never neither.
SurvivorsDistinct ==
    \A i, j \in Survivors : IdAt(last.batch, i) = IdAt(last.batch, j) => i = j

C4_DegenerateBatch ==
    (IsIndexCall /\ last.encoded /\ Survivors = {}) =>
        /\ last.status = "no_valid_vectors_error"
        /\ last.invalid_files = NamesInOrder(last.batch)
        /\ disk = last.before
        /\ ~last.before.index_exists =>
               (~disk.index_exists /\ ~disk.metadata_with_id_exists
                    /\ ~disk.model_fingerprint_exists)

C4_Witness ==
    /\ IsIndexCall
    /\ last.status = "no_valid_vectors_error"
    /\ Len(last.batch) = 2
    /\ ~disk.index_exists

\* C5: after every index_files call that returns valid_output the vector
\* store holds as many vectors as the metadata mapping has entries; no
\* persisted state has differing counts, and a call stopped by the count
\* assertion has written nothing.
C5_CountsAgree ==
    /\ ntotal(disk.index) = Cardinality(Keys(disk))
    /\ (IsIndexCall /\ last.status = "valid_output") =>
           (disk.index_exists /\ disk.metadata_with_id_exists)
    /\ (IsIndexCall /\ last.status = "AssertionError") => disk = last.before

C5_Witness ==
    /\ IsIndexCall
    /\ last.status = "AssertionError"
    /\ last.encoded
    /\ ntotal(disk.index) >= 1

\* C6: no DocumentId is held by more than one vector of the persisted
\* vector store, also after a batch in which two documents derive the
\* same DocumentId.
C6_UniqueIds ==
    \A i, j \in 1..ntotal(disk.index) :
        disk.index.entries[i].id = disk.index.entries[j].id => i = j

C6_Witness ==
    /\ IsIndexCall
    /\ last.encoded
    /\ Len(last.batch) = 2
    /\ IdAt(last.batch, 1) = IdAt(last.batch, 2)
    /\ last.batch[1].file_path # last.batch[2].file_path
    /\ Survivors = {1, 2}

\* C7: when index_files has loaded the index (the three artifacts exist
\* and the fingerprint is not a changed one) and some pending document's
\* DocumentId is in the existing id set, the call ends in an assertion
\* failure, encodes nothing and changes no artifact, at whatever position
\* the document is.
InExistingIds(d, id) == ToString(id) \in Keys(d)

C7_DuplicateId ==
    (/\ IsIndexCall /\ ThreeFiles(last.before) /\ ~StoredDiffers(last.before, last.model)
     /\ \E i \in 1..Len(last.batch) : InExistingIds(last.before, IdAt(last.batch, i))) =>
        /\ last.status = "AssertionError"
        /\ ~last.encoded
        /\ disk = last.before

C7_Witness ==
    /\ IsIndexCall
    /\ last.status = "AssertionError"
    /\ Len(last.batch) = 2
    /\ ~InExistingIds(last.before, IdAt(last.batch, 1))
    /\ InExistingIds(last.before, IdAt(last.batch, 2))

\* C8 as stated: once an index_files call has returned model_changed_error,
\* every later index_files call on that index returns model_changed_error
\* and writes nothing, whichever model is active.
C8_StaleIsTerminal ==
    (IsIndexCall /\ last.after_stale /\ last.status # "AssertionError") =>
        (last.status = "model_changed_error" /\ disk = last.before)

\* C8 amended: once an index_files call has returned model_changed_error,
\* a later index_files call on that index returns model_changed_error
\* exactly when the stored fingerprint differs from the fingerprint of the
\* model active at that call, and then writes nothing; the stored
\* fingerprint stays that of the model that built the index.
C8_StaleWhileMismatch ==
    (IsIndexCall /\ last.after_stale) =>
        /\ ThreeFiles(last.before)
        /\ last.status = "model_changed_error" <=> StoredDiffers(last.before, last.model)
        /\ last.status = "model_changed_error" => disk = last.before
        /\ disk.model_fingerprint = last.before.model_fingerprint

C8_Witness ==
    /\ IsIndexCall
    /\ last.after_stale
    /\ last.status = "model_changed_error"

\* C9: search fails with the not-initialized condition exactly when the
\* vector-store file or the metadata file is absent; the fingerprint is
\* not consulted, so with both files present - also when the stored
\* fingerprint differs from the active model's - search returns results.
C9_SearchNotBlocked ==
    IsSearchCall =>
        /\ last.status \in {"not_initialized", "FileNotFoundError"}
               <=> (~disk.index_exists \/ ~disk.metadata_with_id_exists)
        /\ (disk.index_exists /\ disk.metadata_with_id_exists) => last.status = "results"

\* C10: on an index built by index_files that holds n entries, a search
\* with k >= 1 that the vector store accepts (the query vector has the
\* dimension of the index) returns min(k, n) results in non-increasing
\* score order; each is the stored metadata of a distinct indexed id with
\* its raw score, and no result stands for the id -1.
QueryVec == Encode(last.model, <<"query: ", last.query>>)

ScoreOf(id) ==
    LET i == CHOOSE i \in 1..ntotal(disk.index) : disk.index.entries[i].id = id
    IN InnerProduct(QueryVec, disk.index.entries[i].vec)

Min(a, b) == IF a < b THEN a ELSE b

C10_SearchResults ==
    (/\ IsSearchCall /\ disk.index_exists /\ disk.metadata_with_id_exists
     /\ QueryVec.dim = disk.index.d) =>
        LET res == last.results
            idOf(i) == compute_document_id(res[i].file_path)
        IN /\ last.status = "results"
           /\ Len(res) = Min(last.top_k, ntotal(disk.index))
           /\ \A i \in 1..Len(res) :
                  /\ idOf(i) \in IndexIds(disk.index)
                  /\ idOf(i) # NoMatch
                  /\ res[i].file_name = disk.metadata[ToString(idOf(i))].file_name
                  /\ res[i].file_path = disk.metadata[ToString(idOf(i))].file_path
                  /\ res[i].keywords = disk.metadata[ToString(idOf(i))].keywords
                  /\ res[i].summary = disk.metadata[ToString(idOf(i))].summary
                  /\ res[i].search_score = ScoreOf(idOf(i))
           /\ \A i, j \in 1..Len(res) :
                  /\ i < j => res[i].search_score >= res[j].search_score
                  /\ idOf(i) = idOf(j) => i = j
           /\ \A i \in 1..Len(res), j \in 1..ntotal(disk.index) :
                  (\A h \in 1..Len(res) : idOf(h) # disk.index.entries[j].id)
                      => res[i].search_score >= ScoreOf(disk.index.entries[j].id)

C10_WitnessFewer ==
    /\ IsSearchCall
    /\ last.status = "results"
    /\ ntotal(disk.index) = 1
    /\ last.top_k = 2
    /\ Len(last.results) = 1
    /\ \E i \in 1..Len(last.raw) : last.raw[i].id = NoMatch

\* ------------------------------------------------ claims on the text
\* the keywords of a document that are not blank, the first five of them
NonBlankFive(doc) ==
    LET kept == SelectSeq(doc.keywords, LAMBDA kw : kw # "")
    IN SubSeq(kept, 1, IF Len(kept) < 5 THEN Len(kept) ELSE 5)

\* the segments of a file name without the last one, its extension
WithoutExtension(file_name) == SubSeq(file_name, 1, Len(file_name) - 1)

\* C19: the text embedded for a document is "passage: ", the file name
\* without its extension and nothing else removed, " - ", the first at
\* most 5 non-blank keywords joined by commas, " - ", the summary; also for
\* a file name with more than one dot.
C19_CanonicalText ==
    \A i \in 1..Len(disk.index.entries) :
        LET text == disk.index.entries[i].vec.text
            doc == disk.metadata[StrKey(disk.index.entries[i].id)]
        IN /\ text[1] = "passage: "
           /\ <<text[2]>> = WithoutExtension(doc.file_name)
           /\ SubSeq(text, 3, Len(text))
                 = <<" - ">> \o JoinComma(NonBlankFive(doc)) \o <<" - ", doc.summary>>

\* ------------------------------------------------ claims on summarization
SummarizeStatuses ==
    { "http_request_error", "unknown_ollama_error", "json_parse_error",
      "invalid_output_error", "valid_output" }

\* C12: summarize does not retry on a transport failure: once a request has
\* failed in transport, the call sends no further request.
C12_NoRetryOnTransportFailure ==
    [][(sum.requests > 0 /\ sum.llm_output = http_request_error)
          => sum'.requests <= sum.requests]_vars

C14_NeverRaises ==
    sum.pc = "done" =>
        /\ sum.result.raised = "none"
        /\ sum.result.status \in SummarizeStatuses
        /\ (~IsErrorString(sum.llm_output) /\ ~HasMatch(sum.llm_output))
              => sum.result.status = "json_parse_error"

\* C15: valid_output is returned only with a cleaned summary of at least 50
\* characters and at least one keyword, and the summary returned with it
\* holds no occurrence of the file name.
C15_ValidOutput ==
    (sum.pc = "done" /\ sum.result.status = "valid_output") =>
        /\ Len(sum.result.summary) >= MinSummaryLen
        /\ Len(sum.result.keywords) >= 1
        /\ Occurrences(sum.result.summary, sum.file_name) = {}

\* ------------------------------------------- claims on the JSON object
\* the first top-level JSON object of a text: from its first opening brace
\* to the first closing brace after it
FirstObject(text) ==
    LET after == { i \in Closes(text) : i > FirstOpen(text) }
    IN SubSeq(text, FirstOpen(text), CHOOSE i \in after : \A j \in after : i <= j)

HasFirstObject(text) ==
    /\ ~IsErrorString(text)
    /\ Opens(text) # {}
    /\ \E i \in Closes(text) : i > FirstOpen(text)
    /\ Parsable(FirstObject(text))

\* C26: when the response holds a well-formed JSON object with any text
\* around it, the result is that of parsing this first object alone; what
\* follows it, braces and further objects included, has no part in it.
C26_FirstObjectParsed ==
    (sum.pc = "done" /\ HasFirstObject(sum.llm_output)) =>
        sum.result = ParseOutput(FirstObject(sum.llm_output), sum.file_name)

CallsOf(r, b) == { j \in 1..Len(r.calls) : r.calls[j].b = b }

\* the batch in which the user asked to stop was organized once, with the
\* documents summarized by then, and they are in the persisted metadata
\* when the call succeeded and their vectors were kept
CancelledBatchIndexed(r, d) ==
    (r.pc = "done" /\ r.stop_b > 0 /\ r.stop_pending # <<>>) =>
        /\ Cardinality(CallsOf(r, r.stop_b)) = 1
        /\ \A j \in CallsOf(r, r.stop_b) :
            /\ r.calls[j].docs = r.stop_pending
            /\ r.calls[j].status = "valid_output" =>
                \A k \in 1..Len(r.stop_pending) :
                    LET doc == r.stop_pending[k]
                        key == ToString(compute_document_id(doc.file_path))
                    IN (\A t \in 1..Len(r.calls[j].invalid_files) :
                            r.calls[j].invalid_files[t] # doc.file_name)
                       => (key \in DOMAIN d.metadata /\ d.metadata[key] = doc)

\* C16: once the stop flag is set no further document is summarized in the
\* run, and the documents already summarized in the current batch are
\* passed to index_files exactly once and persisted.
C16_Cancellation ==
    [][/\ run.stop_flag => run'.summarized = run.summarized
       /\ CancelledBatchIndexed(run', disk')]_vars

\* stopped after the first file of the first of several batches: that one
\* document was indexed and no other file was summarized
C16_Witness ==
    /\ run.pc = "done"
    /\ run.n > batch_size
    /\ run.stop_b = 1
    /\ Len(run.stop_pending) = 1
    /\ run.summarized = <<1>>
    /\ Len(run.calls) = 1
    /\ run.calls[1].status = "valid_output"
    /\ DOMAIN disk.metadata = { ToString(compute_document_id(RunFilePaths[1])) }

\* C17: an extraction failure on one document does not abort the batch: the
\* run goes on and the document is in the skip list.
C17_ExtractionFailureSkipped ==
    run.exception = "ValueError" =>
        /\ run.pc # "raised"
        /\ \E j \in 1..Len(run.skipped_files) :
            run.skipped_files[j].file = FileName(run.summarized[Len(run.summarized)])

\* C18: after a call of index_files has returned model_changed_error or
\* no_valid_vectors_error, no document is summarized and index_files is
\* not called again in the run.
C18_FatalStopsRun ==
    [][(/\ run.calls # <<>>
        /\ run.calls[Len(run.calls)].status
              \in { "model_changed_error", "no_valid_vectors_error" })
          => (run'.summarized = run.summarized /\ run'.calls = run.calls)]_vars

\* the first of several batches ended in no_valid_vectors_error, and the
\* run ended without touching the files of the later batches
C18_Witness ==
    /\ run.pc = "done"
    /\ NumBatches(run.n) > 1
    /\ Len(run.calls) = 1
    /\ run.calls[1].b = 1
    /\ run.calls[1].status = "no_valid_vectors_error"
    /\ Len(run.summarized) = batch_size

\* C20: every entry of the persisted metadata has at most 5 keywords.
C20_AtMostFiveKeywords ==
    \A key \in DOMAIN disk.metadata : Len(disk.metadata[key].keywords) <= 5

\* ------------------------------------------------- claims on the lines
\* C22: check_line_validity answers false exactly when the trimmed line is
\* no longer than min_line_len, or consists of digits and punctuation only,
\* or is a catalog line, or matches a boilerplate pattern, and true
\* otherwise; "Page 12", the Chinese page marker, "1/10" and the
\* "Confidential" banner are rejected and the sentence on the quarterly
\* revenue is accepted.
C22_LineClassifier ==
    ext.op = "check_line_validity" =>
        LET line == Strip(ext.line)
        IN /\ ext.valid =
                ~(\/ Len(line) <= ext.min_line_len
                  \/ OnlyDigitsAndPunctuation(line)
                  \/ is_catalog_line(line)
                  \/ MatchesRemovePattern(line))
           /\ ext.line \in { Text("Page 12"), Text("page_cn"), Text("1/10"),
                             Text("banner") } => ~ext.valid
           /\ ext.line = Text("sentence") => ext.valid

C22_Witness ==
    /\ ext.op = "check_line_validity"
    /\ ext.line = Text("Page 12")
    /\ ext.min_line_len = 2
    /\ ~ext.valid

\* the characters of s that are not the space character
NonSpace(s) == Subsequence(s, { i \in 1..Len(s) : s[i] # " " })

\* the spaces of out are single, inside the line and next to a Latin letter
SpacesNormalized(out) ==
    \A i \in 1..Len(out) :
        out[i] = " " =>
            /\ 1 < i /\ i < Len(out)
            /\ out[i + 1] # " "
            /\ IsAsciiAlpha(out[i - 1]) \/ IsAsciiAlpha(out[i + 1])

CleanedExamples ==
    /\ ext.line = Text("Hello   World") => ext.cleaned = Text("Hello World")
    /\ ext.line = Text("ni hao shi jie") => ext.cleaned = Text("nihaoshijie")

\* C23: the output of clean_whitespace keeps the characters of the line
\* trimmed of the whitespace at its two ends, other than spaces, in their
\* order; it neither starts nor ends with whitespace; no two spaces follow
\* each other and every space left has an ASCII Latin letter right before
\* or right after it; the two examples come out as stated and cleaning the
\* output again changes nothing.
C23_CleanWhitespace ==
    ext.op = "clean_whitespace" =>
        /\ NonSpace(ext.cleaned) = NonSpace(Strip(ext.line))
        /\ Strip(ext.cleaned) = ext.cleaned
        /\ SpacesNormalized(ext.cleaned)
        /\ CleanedExamples
        /\ clean_whitespace(ext.cleaned) = ext.cleaned

\* C23 as stated: all characters of the input line other than spaces
\* are kept, whatever the line
C23_AsStated ==
    ext.op = "clean_whitespace" =>
        /\ NonSpace(ext.cleaned) = NonSpace(ext.line)
        /\ SpacesNormalized(ext.cleaned)
        /\ CleanedExamples
        /\ clean_whitespace(ext.cleaned) = ext.cleaned

C23_Witness ==
    /\ ext.op = "clean_whitespace"
    /\ ext.line = Text("Hello   World")
    /\ ext.cleaned = Text("Hello World")

\* ----------------------------------------------- claims on the headers
Headers == { k \in 1..Len(ext.flags) : ext.flags[k] }

\* the slide has paragraphs of one run each, of the given sizes, none
\* with a list prefix
PlainSlideOf(sizes) ==
    /\ Len(ext.slide) = Len(sizes)
    /\ \A k \in 1..Len(sizes) :
        ext.slide[k] = Paragraph(Text("Overview"), k, <<sizes[k]>>)

\* C21: with min_header_rank = 3 and min_header_fontsize = 14 a paragraph
\* among the first 3 of its slide from the top down is a header exactly
\* when its font size is at least 14, and a paragraph ranked later is a
\* header exactly when its text starts with a numbered-list prefix or a
\* bullet glyph; sizes [20,20,10,10,10] give exactly the first two as
\* headers and a slide of prefix-free paragraphs of size 20 gives at most 3.
C21_HeaderRanking ==
    (ext.op = "parse_ppt_to_get_headers" /\ ext.raised = "none") =>
        /\ \A k \in 1..Len(ext.shape_texts) :
            ext.flags[k] =
                IF k <= 3 THEN ext.shape_texts[k].font_size >= 14
                ELSE \/ HasNumberPrefix(ext.shape_texts[k].text)
                     \/ HasBulletPrefix(ext.shape_texts[k].text)
        /\ PlainSlideOf(<<20, 20, 10, 10, 10>>) => Headers = {1, 2}
        /\ (\A k \in 1..Len(ext.slide) :
                ext.slide[k] = Paragraph(Text("Overview"), k, <<20>>))
            => Cardinality(Headers) <= 3

\* C27: the font size recorded for a paragraph is the explicit size of its
\* own first run, or 10 when the first run has none or the paragraph has
\* no run; no later run and no earlier paragraph has a part in it.
C27_FontSizeOfFirstRun ==
    ext.op = "parse_ppt_to_get_headers" =>
        /\ ext.raised = "none"
        /\ \A k \in 1..Len(ext.shape_texts) :
            LET runs == ext.slide[ext.shape_texts[k].para].runs
            IN ext.shape_texts[k].font_size =
                IF runs # <<>> /\ runs[1] # NoSize THEN runs[1] ELSE 10

\* ------------------------------------------------ claims on the blocks
\* the block of the document that a returned block was made from
Source(info) == ext.doc[info.at[1]].blocks[info.at[2]]

\* C24: every block the PDF extractor returns lies outside both bands, is
\* the cleaned text of the accepted lines of its block only, is at least
\* min_block_len characters long and carries its page number counted from
\* 1; the blocks come in page order and, on a page, in the order met; with
\* only_text the result is the sequence of the texts of those blocks.
C24_PdfBlocks ==
    ext.op = "parse_pdf_to_block_info" =>
        /\ \A k \in 1..Len(ext.all_blocks) :
            LET info == ext.all_blocks[k]
                b == Source(info)
                accepted == { i \in 1..Len(b.lines) :
                    /\ JoinSpace(b.lines[i]) # <<>>
                    /\ check_line_validity(JoinSpace(b.lines[i]), 2) }
                texts == Subsequence(b.lines, accepted)
            IN /\ b.type = 0
               /\ info.y >= header_height
               /\ info.y + info.height
                    <= ext.doc[info.page].height - footer_height
               /\ accepted # {}
               /\ info.text =
                    clean_whitespace(JoinSpace(
                        [i \in 1..Len(texts) |-> JoinSpace(texts[i])]))
               /\ Len(info.text) >= min_block_len
               /\ info.page = info.at[1]
               /\ info.page \in 1..Len(ext.doc)
        /\ \A j, k \in 1..Len(ext.all_blocks) :
            j < k =>
                LET a == ext.all_blocks[j].at
                    c == ext.all_blocks[k].at
                IN a[1] < c[1] \/ (a[1] = c[1] /\ a[2] < c[2])
        /\ IF ext.only_text
           THEN ext.result =
                    [k \in 1..Len(ext.all_blocks) |-> ext.all_blocks[k].text]
           ELSE ext.result = ext.all_blocks

C24_Witness ==
    /\ ext.op = "parse_pdf_to_block_info"
    /\ ext.only_text
    /\ Len(ext.doc) = 2
    /\ Len(ext.doc[1].blocks) = 1 /\ Len(ext.doc[2].blocks) = 1
    /\ Len(ext.result) = 1
    /\ \E p \in 1..2 : InBand(ext.doc[p].blocks[1], ext.doc[p].height)

\* ------------------------------------------- claims on the persisted files
\* the call indexes documents not yet recorded, with the model the index
\* was built with
NotYetRecorded(c) ==
    /\ ThreeFiles(c.before)
    /\ c.before.model_fingerprint.has_fingerprint
    /\ c.before.model_fingerprint.fingerprint
          = get_model_fingerprint(c.model.name, c.model)
    /\ DistinctIds(c.batch)
    /\ BatchIds(c.batch) \cap ExistingDocIds(c.before.metadata) = {}

\* C25: the three files are persisted together: wherever index_files
\* stops inside its save, the files on disk hold as many vectors as
\* metadata entries, and a later call that indexes documents not yet
\* recorded does not fail its assertion on the counts.
C25_PersistedTogether ==
    /\ (disk.index_exists /\ disk.metadata_with_id_exists) =>
            ntotal(disk.index) = Cardinality(DOMAIN disk.metadata)
    /\ (last.op = "index" /\ NotYetRecorded(last)) =>
            last.status # "AssertionError"

\* every entry of the files of d is in the files of e, unchanged
EntriesKept(d, e) ==
    /\ d.index_exists =>
        /\ Len(d.index.entries) <= Len(e.index.entries)
        /\ SubSeq(e.index.entries, 1, Len(d.index.entries)) = d.index.entries
    /\ d.metadata_with_id_exists =>
        \A k \in DOMAIN d.metadata :
            k \in DOMAIN e.metadata /\ e.metadata[k] = d.metadata[k]

\* C28: a call of index_files that returns valid_output on a disk where
\* all three files exist removes and replaces no entry persisted before
\* the call.
C28_NothingRemovedOfThree ==
    (last.op = "index" /\ last.status = "valid_output" /\ ThreeFiles(last.before))
        => EntriesKept(last.before, disk)

\* C28 as stated: the same whatever files exist before the call
C28_NothingRemoved ==
    (last.op = "index" /\ last.status = "valid_output")
        => EntriesKept(last.before, disk)

C28_Witness ==
    /\ last.op = "index"
    /\ last.status = "valid_output"
    /\ ThreeFiles(last.before)
    /\ ntotal(last.before.index) >= 1
    /\ ntotal(disk.index) > ntotal(last.before.index)

\* C29: every vector of the persisted index was produced by one model, the
\* one whose fingerprint the fingerprint file holds, whatever the changes
\* of the active model between the calls and whatever the fingerprint
\* file held before them.
C29_OneModel ==
    (last.op \in {"none", "index"} /\ ThreeFiles(disk)) =>
        /\ \A i, j \in 1..Len(disk.index.entries) :
            disk.index.entries[i].vec.model = disk.index.entries[j].vec.model
        /\ disk.model_fingerprint.has_fingerprint =>
            \A i \in 1..Len(disk.index.entries) :
                \E m \in Models :
                    /\ m.name = disk.index.entries[i].vec.model
                    /\ get_model_fingerprint(m.name, m)
                          = disk.model_fingerprint.fingerprint

\* C30: after a call that returns valid_output every vector of the index
\* is stored under an id that has a metadata entry, and is the encoding of
\* the canonical text of that entry.
C30_VectorOfItsMetadata ==
    (last.op = "index" /\ last.status = "valid_output") =>
        \A i \in 1..Len(disk.index.entries) :
            LET e == disk.index.entries[i]
            IN /\ StrKey(e.id) \in DOMAIN disk.metadata
               /\ e.vec.text = build_text_for_embedding(disk.metadata[StrKey(e.id)])

====
